---- MODULE Spec2Model ----
(***************************************************************************)
(* ArgonSceneExporter (opencmiss/exporter/thumbnail.py): loading an Argon  *)
(* document and exporting a thumbnail of it through an offscreen render.   *)
(*                                                                         *)
(* One exporter instance is live at a time (Construct replaces it); the    *)
(* process state (working directory, GUI application singleton, optional   *)
(* toolkit) outlives it.  export_thumbnail is modelled statement group by  *)
(* statement group with a program counter; the other methods are atomic.   *)
(***************************************************************************)
EXTENDS Integers, Sequences, FiniteSets, TLC

\* Python's None, where a string may stand; and None in the places that hold
\* a document, a file name or the record of a load.
None == "None"
NoDocument == [origin |-> None, contents |-> None]
NoFilename == [dir |-> None, base |-> None]
NoLoad == [ret |-> None, cause |-> None, held |-> None, replaced |-> None,
           cwdBefore |-> None]

\* Cap on the counter of GUI application constructions (reached only when
\* the singleton guard is broken).
MaxCreations == 2

(***************************************************************************)
(* Input domains                                                           *)
(***************************************************************************)
DefaultTarget == "."
DefaultPrefix == "ArgonSceneExporterThumbnail"
DefaultNumberOfTimeSteps == 10

StartDir == "/w"
Dirs == {"/w", "/d"}
OutputTargets == {DefaultTarget, "/out"}
Prefixes == {DefaultPrefix, "heart"}
\* initialTime / finishTime: None or a time.
TimeValues == {None, "0.0"}
TimeStepCounts == {DefaultNumberOfTimeSteps, 2}

\* File names a caller may pass: a bare name (no directory part), and three
\* names in directory /d: a well-formed document, a malformed one, and a file
\* that does not exist.
Filenames ==
    { [dir |-> "",   base |-> "doc.argon"],
      [dir |-> "/d", base |-> "doc.argon"],
      [dir |-> "/d", base |-> "bad.argon"],
      [dir |-> "/d", base |-> "missing.argon"] }

\* The files on disk, by absolute directory.
FilesOnDisk ==
    { [dir |-> "/w", base |-> "doc.argon"],
      [dir |-> "/d", base |-> "doc.argon"],
      [dir |-> "/d", base |-> "bad.argon"] }

\* What a call into the document / Zinc / Qt libraries may do.
ExternalOutcomes == {"ok", "ImportError", "RuntimeError"}

\* A document object handed in by the caller through set_document.
ExternalDocument == [origin |-> "caller", contents |-> "full"]

VARIABLES
    output_target,      \* self._output_target
    prefix,             \* self._prefix
    document,           \* self._document: None or [origin, contents]
    filename,           \* self._filename
    initialTime,        \* self._initialTime
    finishTime,         \* self._finishTime
    numberOfTimeSteps,  \* self._numberOfTimeSteps
    cwd,                \* the process working directory
    toolkit,            \* whether PySide2 can be imported in this process
    guiInstance,        \* QGuiApplication.instance() is not None
    guiCreations,       \* how many times QGuiApplication([]) was constructed
    fbo,                \* framebuffer object of the latest export_thumbnail
    pc,                 \* position inside export_thumbnail, or "idle"
    result,             \* how the latest call ended
    written,            \* paths image.save wrote during the latest call
    done,               \* pipeline events performed by the latest call
    lastLoad            \* record of the load() performed by the latest call

inst == <<output_target, prefix, document, filename, initialTime, finishTime,
          numberOfTimeSteps>>
proc == <<cwd, toolkit, guiInstance, guiCreations>>
vars == <<inst, proc, fbo, pc, result, written, done, lastLoad>>

(***************************************************************************)
(* os.path helpers                                                         *)
(***************************************************************************)
\* os.path.dirname(filename)
Dirname(f) == f.dir

\* open(filename, 'r') succeeds: a relative name is resolved against cwd.
CanOpen(f, wd) ==
    [dir |-> IF f.dir = "" THEN wd ELSE f.dir, base |-> f.base] \in FilesOnDisk

\* os.chdir(path) succeeds: os.chdir('') raises FileNotFoundError.
CanChdir(path) == path \in Dirs

\* document.deserialize(state) completes for the contents of file f.
WellFormed(f) == f.base = "doc.argon"

\* os.path.join(self._output_target, f'{self._prefix}_thumbnail.jpeg')
ThumbnailPath(target, pfx) ==
    [dir |-> target, file |-> <<pfx, "_thumbnail.jpeg">>]

\* The directory os.chdir(current_wd) leaves the process in, current_wd being
\* the os.getcwd() taken before os.chdir(path).
RestoredDir(current_wd, path) == current_wd

(***************************************************************************)
(* load(filename) as a function of the state it reads: the value returned, *)
(* the statement that failed (cause), the document and working directory   *)
(* it leaves, and whether it assigned self._document.                      *)
(***************************************************************************)
LoadOutcome(f, doc, wd) ==
    IF f = NoFilename
      THEN [ret |-> FALSE, cause |-> "no filename", document |-> doc,
            cwd |-> wd, replaced |-> FALSE]
    ELSE IF ~CanOpen(f, wd)
      THEN [ret |-> FALSE, cause |-> "open", document |-> doc,
            cwd |-> wd, replaced |-> FALSE]
    ELSE IF ~CanChdir(Dirname(f))
      THEN [ret |-> FALSE, cause |-> "chdir", document |-> doc,
            cwd |-> wd, replaced |-> FALSE]
    ELSE IF ~WellFormed(f)
      THEN [ret |-> FALSE, cause |-> "deserialize",
            document |-> [origin |-> "load", contents |-> "partial"],
            cwd |-> Dirname(f), replaced |-> TRUE]
    ELSE [ret |-> TRUE, cause |-> "none",
          document |-> [origin |-> "load", contents |-> "full"],
          cwd |-> RestoredDir(wd, Dirname(f)), replaced |-> TRUE]

\* What the latest call's load() did: its return value, the statement that
\* failed, whether the exporter held a document when it was called, whether
\* it assigned self._document, and the working directory it was called in.
LoadRecord(o, doc, wd) ==
    [ret |-> IF o.ret THEN "True" ELSE "False",
     cause |-> o.cause,
     held |-> IF doc /= NoDocument THEN "True" ELSE "False",
     replaced |-> IF o.replaced THEN "True" ELSE "False",
     cwdBefore |-> wd]

\* The bookkeeping of a call that is not an export.
NewCall ==
    /\ written' = <<>>
    /\ done' = {}

(***************************************************************************)
(* Atomic methods                                                          *)
(***************************************************************************)
\* __init__(output_target, output_prefix): a new exporter replaces the old.
Construct(t, p) ==
    /\ pc = "idle"
    /\ output_target' = IF t = None THEN DefaultTarget ELSE t
    /\ prefix' = IF p = None THEN DefaultPrefix ELSE p
    /\ document' = NoDocument
    /\ filename' = NoFilename
    /\ initialTime' = None
    /\ finishTime' = None
    /\ numberOfTimeSteps' = DefaultNumberOfTimeSteps
    /\ NewCall
    /\ result' = "none"
    /\ lastLoad' = NoLoad
    /\ UNCHANGED <<proc, fbo, pc>>

set_document(d) ==
    /\ pc = "idle"
    /\ document' = d
    /\ NewCall
    /\ result' = "none"
    /\ lastLoad' = NoLoad
    /\ UNCHANGED <<output_target, prefix, filename, initialTime, finishTime,
                   numberOfTimeSteps, proc, fbo, pc>>

set_filename(f) ==
    /\ pc = "idle"
    /\ filename' = f
    /\ NewCall
    /\ result' = "none"
    /\ lastLoad' = NoLoad
    /\ UNCHANGED <<output_target, prefix, document, initialTime, finishTime,
                   numberOfTimeSteps, proc, fbo, pc>>

set_parameters(n, i, f, p) ==
    /\ pc = "idle"
    /\ numberOfTimeSteps' = n
    /\ initialTime' = i
    /\ finishTime' = f
    /\ prefix' = p
    /\ NewCall
    /\ result' = "none"
    /\ lastLoad' = NoLoad
    /\ UNCHANGED <<output_target, document, filename, proc, fbo, pc>>

load(f) ==
    /\ pc = "idle"
    /\ LET o == LoadOutcome(f, document, cwd) IN
         /\ document' = o.document
         /\ cwd' = o.cwd
         /\ lastLoad' = LoadRecord(o, document, cwd)
         /\ result' = IF o.ret THEN "True" ELSE "False"
    /\ NewCall
    /\ UNCHANGED <<output_target, prefix, filename, initialTime, finishTime,
                   numberOfTimeSteps, toolkit, guiInstance, guiCreations,
                   fbo, pc>>


(***************************************************************************)
(* export_thumbnail                                                        *)
(***************************************************************************)
\* Pipeline with the render call issued before the scene is attached.
PipelineRenderBeforeScene ==
    << "import", "gui", "surface", "context", "fbo", "viewer", "guard",
       "view", "camera", "render", "scene", "save", "release" >>

\* The statement groups of export_thumbnail in program order.
Pipeline ==
    << "import", "gui", "surface", "context", "fbo", "viewer", "guard",
       "view", "camera", "scene", "render", "save", "release" >>

\* The statement group control reaches after group p completes.
After(p) ==
    LET i == CHOOSE k \in 1..Len(Pipeline) : Pipeline[k] = p
    IN  IF i < Len(Pipeline) THEN Pipeline[i + 1] ELSE "return"

\* NoApplication without the look at the existing instance.
NoApplicationUnchecked(instance) == TRUE

\* if QtGui.QGuiApplication.instance() is None
NoApplication(instance) == ~instance

\* TimeVarying with the negation dropped.
TimeVaryingNegationDropped(i, f) == i = None \/ f = None

\* not (self._initialTime is None or self._finishTime is None)
TimeVarying(i, f) == ~(i = None \/ f = None)

\* What the caller sees of an exception raised inside the try block: an
\* ImportError is replaced by OpenCMISSExportThumbnailError, any other
\* exception propagates unchanged.
Surfaced(exc) ==
    IF exc = "ImportError" THEN "OpenCMISSExportThumbnailError" ELSE exc

\* The call ends by raising exc from inside the try block.
Raise(exc) ==
    /\ pc' = "idle"
    /\ result' = Surfaced(exc)

\* Control moves on to the next statement group, or falls off the end of the
\* method, which returns None.
Continue(p) ==
    /\ pc' = IF After(p) = "return" THEN "idle" ELSE After(p)
    /\ result' = IF After(p) = "return" THEN "returned" ELSE result

\* Control leaves the nested ifs without entering them and falls off the end.
FallThrough ==
    /\ pc' = "idle"
    /\ result' = "returned"

\* Entry of export_thumbnail (called directly).
export_thumbnail ==
    /\ pc = "idle"
    /\ pc' = Pipeline[1]
    /\ fbo' = "none"
    /\ result' = "none"
    /\ lastLoad' = NoLoad
    /\ written' = <<>>
    /\ done' = {"export_thumbnail"}
    /\ UNCHANGED <<inst, proc>>

\* export(output_target) up to its call of export_thumbnail.
export(t) ==
    /\ pc = "idle"
    /\ output_target' = IF t /= None THEN t ELSE output_target
    /\ written' = <<>>
    /\ fbo' = "none"
    /\ IF document = NoDocument
         THEN LET fresh == [origin |-> "export", contents |-> "empty"]
                  o == LoadOutcome(filename, fresh, cwd)
              IN  /\ document' = o.document
                  /\ cwd' = o.cwd
                  /\ lastLoad' = LoadRecord(o, fresh, cwd)
                  /\ pc' = Pipeline[1]
                  /\ done' = {"export_thumbnail"}
                  /\ result' = "none"
         ELSE \E out \in ExternalOutcomes :
                  /\ cwd' = cwd
                  /\ lastLoad' = NoLoad
                  /\ IF out = "ok"
                       THEN /\ document' = document
                            /\ pc' = Pipeline[1]
                            /\ done' = {"export_thumbnail"}
                            /\ result' = "none"
                       ELSE /\ document' = [document EXCEPT !.contents = "partial"]
                            /\ pc' = "idle"
                            /\ done' = {}
                            /\ result' = out
    /\ UNCHANGED <<prefix, filename, initialTime, finishTime,
                   numberOfTimeSteps, toolkit, guiInstance, guiCreations>>

\* from PySide2 import ...; from opencmiss.zinc.sceneviewer import Sceneviewer
ImportStep ==
    /\ pc = "import"
    /\ IF toolkit
         THEN /\ done' = done \cup {"import"}
              /\ Continue("import")
         ELSE /\ done' = done
              /\ Raise("ImportError")
    /\ UNCHANGED <<inst, proc, fbo, written, lastLoad>>

GuiStep ==
    /\ pc = "gui"
    /\ IF NoApplication(guiInstance)
         THEN /\ guiInstance' = TRUE
              /\ guiCreations' = IF guiCreations < MaxCreations
                                   THEN guiCreations + 1 ELSE guiCreations
              /\ done' = done \cup {"gui_created"}
         ELSE /\ UNCHANGED <<guiInstance, guiCreations>>
              /\ done' = done \cup {"gui_found"}
    /\ Continue("gui")
    /\ UNCHANGED <<inst, cwd, toolkit, fbo, written, lastLoad>>

\* off_screen.create(); if off_screen.isValid():
SurfaceStep(valid) ==
    /\ pc = "surface"
    /\ IF valid
         THEN /\ done' = done \cup {"surface"}
              /\ Continue("surface")
         ELSE /\ done' = done \cup {"surface_invalid"}
              /\ FallThrough
    /\ UNCHANGED <<inst, proc, fbo, written, lastLoad>>

\* if context.create(): context.makeCurrent(off_screen)
ContextStep(created) ==
    /\ pc = "context"
    /\ IF created
         THEN /\ done' = done \cup {"context", "makeCurrent"}
              /\ Continue("context")
         ELSE /\ done' = done \cup {"context_failed"}
              /\ FallThrough
    /\ UNCHANGED <<inst, proc, fbo, written, lastLoad>>

\* fbo = QOpenGLFramebufferObject(512, 512, fbo_format); fbo.bind()
FboStep ==
    /\ pc = "fbo"
    /\ fbo' = "bound"
    /\ done' = done \cup {"bind"}
    /\ Continue("fbo")
    /\ UNCHANGED <<inst, proc, written, lastLoad>>

\* self._document.getZincContext() ... sceneviewer.setViewportSize(512, 512)
ViewerStep(out) ==
    /\ pc = "viewer"
    /\ IF document = NoDocument
         THEN /\ done' = done
              /\ Raise("AttributeError")
         ELSE IF out = "ok"
                THEN /\ done' = done \cup {"viewport"}
                     /\ Continue("viewer")
                ELSE /\ done' = done
                     /\ Raise(out)
    /\ UNCHANGED <<inst, proc, fbo, written, lastLoad>>

GuardStep ==
    /\ pc = "guard"
    /\ done' = done \cup {"guard"}
    /\ IF TimeVarying(initialTime, finishTime)
         THEN Raise("NotImplementedError")
         ELSE Continue("guard")
    /\ UNCHANGED <<inst, proc, fbo, written, lastLoad>>

\* viewDataRaw = self._document.getSceneviewer().get_view_parameters()
ViewStep(out) ==
    /\ pc = "view"
    /\ IF out = "ok"
         THEN /\ done' = done \cup {"viewparams"}
              /\ Continue("view")
         ELSE /\ done' = done
              /\ Raise(out)
    /\ UNCHANGED <<inst, proc, fbo, written, lastLoad>>

\* setLookatParametersNonSkew, setFarClippingPlane, setNearClippingPlane,
\* setViewAngle
CameraStep ==
    /\ pc = "camera"
    /\ done' = done \cup {"lookat", "far", "near", "angle"}
    /\ Continue("camera")
    /\ UNCHANGED <<inst, proc, fbo, written, lastLoad>>

\* scene = self._document.getRootRegion().getZincRegion().getScene();
\* sceneviewer.setScene(scene)
SceneStep(out) ==
    /\ pc = "scene"
    /\ IF out = "ok"
         THEN /\ done' = done \cup {"scene"}
              /\ Continue("scene")
         ELSE /\ done' = done
              /\ Raise(out)
    /\ UNCHANGED <<inst, proc, fbo, written, lastLoad>>

\* sceneviewer.renderScene()
RenderStep(out) ==
    /\ pc = "render"
    /\ IF out = "ok"
         THEN /\ done' = done \cup {"render"}
              /\ Continue("render")
         ELSE /\ done' = done
              /\ Raise(out)
    /\ UNCHANGED <<inst, proc, fbo, written, lastLoad>>

\* image = fbo.toImage(); image.save(path): QImage.save reports a failed
\* write by returning False, which the code does not look at.
SaveStep(saved) ==
    /\ pc = "save"
    /\ done' = done \cup {"readback", "save"}
    /\ written' = IF saved
                    THEN Append(written, ThumbnailPath(output_target, prefix))
                    ELSE written
    /\ Continue("save")
    /\ UNCHANGED <<inst, proc, fbo, lastLoad>>

\* fbo.release()
ReleaseStep ==
    /\ pc = "release"
    /\ fbo' = "released"
    /\ done' = done \cup {"release"}
    /\ Continue("release")
    /\ UNCHANGED <<inst, proc, written, lastLoad>>

(***************************************************************************)
(* Specification                                                           *)
(***************************************************************************)
Init ==
    /\ output_target = DefaultTarget
    /\ prefix = DefaultPrefix
    /\ document = NoDocument
    /\ filename = NoFilename
    /\ initialTime = None
    /\ finishTime = None
    /\ numberOfTimeSteps = DefaultNumberOfTimeSteps
    /\ cwd = StartDir
    /\ toolkit \in BOOLEAN
    /\ guiInstance = FALSE
    /\ guiCreations = 0
    /\ fbo = "none"
    /\ pc = "idle"
    /\ result = "none"
    /\ written = <<>>
    /\ done = {}
    /\ lastLoad = NoLoad

Next ==
    \/ \E t \in OutputTargets \cup {None}, p \in Prefixes \cup {None} :
           Construct(t, p)
    \/ \E d \in {ExternalDocument, NoDocument} : set_document(d)
    \/ \E f \in Filenames \cup {NoFilename} : set_filename(f)
    \/ \E n \in TimeStepCounts, i \in TimeValues,
          f \in TimeValues, p \in Prefixes : set_parameters(n, i, f, p)
    \/ \E f \in Filenames \cup {NoFilename} : load(f)
    \/ \E t \in OutputTargets \cup {None} : export(t)
    \/ export_thumbnail
    \/ ImportStep
    \/ GuiStep
    \/ \E valid \in BOOLEAN : SurfaceStep(valid)
    \/ \E created \in BOOLEAN : ContextStep(created)
    \/ FboStep
    \/ \E out \in ExternalOutcomes : ViewerStep(out)
    \/ GuardStep
    \/ \E out \in ExternalOutcomes : ViewStep(out)
    \/ CameraStep
    \/ \E out \in ExternalOutcomes : SceneStep(out)
    \/ \E out \in ExternalOutcomes : RenderStep(out)
    \/ \E saved \in BOOLEAN : SaveStep(saved)
    \/ ReleaseStep

Spec == Init /\ [][Next]_vars

TypeOK ==
    /\ output_target \in OutputTargets
    /\ prefix \in Prefixes
    /\ cwd \in Dirs
    /\ guiCreations \in 0..MaxCreations
    /\ fbo \in {"none", "bound", "released"}
    /\ pc \in {"idle"} \cup {Pipeline[k] : k \in 1..Len(Pipeline)}
    /\ Len(written) <= 1

(***************************************************************************)
(* Properties                                                              *)
(***************************************************************************)
\* The latest call ran export_thumbnail, and it has ended.
ThumbnailEnded == pc = "idle" /\ "export_thumbnail" \in done

\* Both time bounds are set.
BothTimesSet == initialTime /= None /\ finishTime /= None

\* C1: when load returns, True or False, the working directory is the one
\* that was active just before the call.
C1_LoadRestoresWorkingDirectory ==
    lastLoad /= NoLoad => cwd = lastLoad.cwdBefore

\* C2: an export_thumbnail call that bound the framebuffer has released it
\* when it ends, whichever way it ends.
C2_FramebufferReleasedOnEveryExit ==
    (ThumbnailEnded /\ "bind" \in done) => fbo = "released"

\* C3 as stated: every export_thumbnail call made with both time bounds set
\* ends with NotImplementedError and writes no file, whether or not the
\* surface and the context could be created.
C3_TimeVaryingAlwaysRejected ==
    (ThumbnailEnded /\ BothTimesSet) =>
        (result = "NotImplementedError" /\ written = <<>>)

\* C3 as amended: an export_thumbnail call made with both time bounds set
\* writes no file, and ends with NotImplementedError whenever it got as far
\* as setting the viewport on its scene viewer (toolkit imported, surface
\* valid, context created, viewer obtained).
C3_TimeVaryingRejectedAtGuard ==
    ("export_thumbnail" \in done /\ BothTimesSet) =>
        /\ written = <<>>
        /\ (pc = "idle" /\ "viewport" \in done) => result = "NotImplementedError"
        /\ pc \notin {"view", "camera", "scene", "render", "save", "release"}

C3_Witness ==
    /\ ThumbnailEnded
    /\ BothTimesSet
    /\ "viewport" \in done
    /\ result = "NotImplementedError"

\* C4: with a fully loaded document and no time bounds, an export_thumbnail
\* call that returns normally has written exactly one file, at
\* <output_target>/<prefix>_thumbnail.jpeg.
C4_NormalReturnWroteTheFile ==
    (/\ ThumbnailEnded
     /\ result = "returned"
     /\ document /= NoDocument
     /\ document.contents = "full"
     /\ ~BothTimesSet)
        => written = << [dir |-> output_target,
                         file |-> <<prefix, "_thumbnail.jpeg">>] >>

\* C5: an invalid surface or a failed context creation makes export_thumbnail
\* fail: it does not return normally, and no framebuffer, render or
\* file-write step is performed.
C5_SurfaceOrContextFailureIsAnError ==
    (ThumbnailEnded /\ done \cap {"surface_invalid", "context_failed"} /= {}) =>
        /\ result /= "returned"
        /\ done \cap {"bind", "render", "save"} = {}
        /\ written = <<>>

\* C6: when export() finds no document and its load fails, export_thumbnail
\* is not entered.
C6_FailedLoadAbortsExport ==
    ~(lastLoad.ret = "False" /\ "export_thumbnail" \in done)

\* C7: export_thumbnail ends with OpenCMISSExportThumbnailError when the
\* toolkit cannot be imported, and with that error only then: never for a
\* failure that comes after the toolkit was imported.
C7_ThumbnailErrorMeansToolkitMissing ==
    ThumbnailEnded =>
        /\ ~toolkit => result = "OpenCMISSExportThumbnailError"
        /\ result = "OpenCMISSExportThumbnailError" => "import" \notin done

\* C8: the GUI application singleton is constructed at most once in the
\* process, exists from then on, and a call that finds it does not construct
\* another.
C8_GuiApplicationCreatedAtMostOnce ==
    /\ guiCreations <= 1
    /\ guiInstance <=> guiCreations = 1
    /\ ~({"gui_created", "gui_found"} \subseteq done)
    /\ "gui_created" \in done => guiCreations = 1

C8_Witness ==
    /\ "gui_found" \in done
    /\ guiCreations = 1
    /\ ThumbnailEnded

\* C9: a load that returns False because loading failed has cleared the
\* document the exporter held, whatever the cause; and load returns True
\* only when deserialization completed.
C9_FailedLoadClearsDocument ==
    /\ (/\ lastLoad.ret = "False"
        /\ lastLoad.cause \in {"open", "chdir", "deserialize"}
        /\ lastLoad.held = "True"
        /\ "export_thumbnail" \notin done)
           => lastLoad.replaced = "True"
    /\ (lastLoad.ret = "True" /\ pc = "idle" /\ "export_thumbnail" \notin done)
           => document = [origin |-> "load", contents |-> "full"]

\* C10: within an export_thumbnail call the context is current before the
\* framebuffer is bound; the framebuffer is bound, and viewport, look-at,
\* clipping planes, view angle and scene are set, before the render call;
\* the time-varying guard is evaluated before the view parameters are read;
\* read-back and save come only after the render call.
C10_PipelineOrder ==
    /\ "bind" \in done => "makeCurrent" \in done
    /\ "render" \in done =>
          {"bind", "viewport", "lookat", "near", "far", "angle", "scene"}
              \subseteq done
    /\ "viewparams" \in done => "guard" \in done
    /\ done \cap {"readback", "save"} /= {} => "render" \in done

C10_Witness ==
    /\ ThumbnailEnded
    /\ {"render", "save", "release"} \subseteq done
    /\ written /= <<>>
====
